---------------------------- MODULE Spec2Model ----------------------------
(***************************************************************************)
(* Model of scripts/generate_fa_pages.py: the pipeline that extracts the   *)
(* visible strings of an HTML document, translates each distinct string    *)
(* once through a remote service and writes them back into the tree,       *)
(* after marking the document as right-to-left.                            *)
(*                                                                         *)
(* A Python str is a sequence of one-character strings.  Attribute values  *)
(* whose characters never matter (src, href, lang, dir, the entries of a   *)
(* class list) are sequences of whole symbols such as <<"js/rtl.js">>.     *)
(***************************************************************************)
EXTENDS Integers, Sequences, FiniteSets, TLC

(***************************************************************************)
(* Bounds of the model.                                                    *)
(***************************************************************************)
MaxLen == 3

(***************************************************************************)
(* Strings.                                                                *)
(***************************************************************************)
Whitespace == {" ", "\n"}

Chars == Whitespace \cup {"a", "b"}

RECURSIVE StringsUpTo(_)
StringsUpTo(n) ==
    IF n = 0 THEN {<<>>}
    ELSE LET shorter == StringsUpTo(n - 1)
         IN  shorter \cup {Append(s, c) : s \in {x \in shorter : Len(x) = n - 1}, c \in Chars}

RECURSIVE lstrip(_)
lstrip(text) ==
    IF text # <<>> /\ Head(text) \in Whitespace THEN lstrip(Tail(text)) ELSE text

RECURSIVE rstrip(_)
rstrip(text) ==
    IF text # <<>> /\ text[Len(text)] \in Whitespace
    THEN rstrip(SubSeq(text, 1, Len(text) - 1))
    ELSE text

strip(text) == rstrip(lstrip(text))

split_text_drop_trailing(text) ==
    LET stripped == strip(text)
        leading_len == Len(text) - Len(lstrip(text))
    IN  IF stripped = <<>> THEN << <<>>, <<>>, <<>> >>
        ELSE << SubSeq(text, 1, leading_len), stripped, <<>> >>

split_text(text) ==
    LET stripped == strip(text)
        leading_len == Len(text) - Len(lstrip(text))
        trailing_len == Len(text) - Len(rstrip(text))
        leading == SubSeq(text, 1, leading_len)
        trailing == IF trailing_len # 0
                    THEN SubSeq(text, Len(text) - trailing_len + 1, Len(text))
                    ELSE <<>>
    IN  IF stripped = <<>> THEN << <<>>, <<>>, <<>> >>
        ELSE << leading, stripped, trailing >>

(***************************************************************************)
(* The parsed document: a store of nodes.  A node's identity is its index  *)
(* in the store (a Python object reference); node 1 is the BeautifulSoup   *)
(* object.  parent = 0 is Python's None: the node is in no tree.           *)
(***************************************************************************)
Root == 1

NoAttrs == [a \in {} |-> <<>>]

Soup == [kind |-> "soup", name |-> "[document]", attrs |-> NoAttrs, str |-> <<>>,
         parent |-> 0, kids |-> <<>>]

Tag(name, attrs) == [kind |-> "tag", name |-> name, attrs |-> attrs, str |-> <<>>,
                     parent |-> 0, kids |-> <<>>]

NavigableString(s) == [kind |-> "text", name |-> "", attrs |-> NoAttrs, str |-> s,
                       parent |-> 0, kids |-> <<>>]

Comment(s) == [kind |-> "comment", name |-> "", attrs |-> NoAttrs, str |-> s,
               parent |-> 0, kids |-> <<>>]

Doctype(s) == [kind |-> "doctype", name |-> "", attrs |-> NoAttrs, str |-> s,
               parent |-> 0, kids |-> <<>>]

IsString(n) == n.kind \in {"text", "comment", "doctype"}

HasAttr(n, a) == a \in DOMAIN n.attrs

\* element.get(attr): the value, or a default when the attribute is absent
Get(n, a, default) == IF HasAttr(n, a) THEN n.attrs[a] ELSE default

SetAttr(t, id, a, v) == [t EXCEPT ![id].attrs = (a :> v) @@ @]

\* the position of a child in its parent's contents, by identity
IndexOf(seq, id) == CHOOSE i \in 1..Len(seq) : seq[i] = id

InsertInto(seq, i, x) == SubSeq(seq, 1, i - 1) \o <<x>> \o SubSeq(seq, i, Len(seq))

RemoveAt(seq, i) == SubSeq(seq, 1, i - 1) \o SubSeq(seq, i + 1, Len(seq))

\* a freshly constructed node, in no tree; its identity is Len(t) + 1
NewNode(t, n) == Append(t, n)

\* parent.insert(i, child) for a child that is in no tree (i counts from 1)
Insert(t, parent, i, id) ==
    [t EXCEPT ![parent].kids = InsertInto(@, i, id), ![id].parent = parent]

\* parent.append(child)
AppendChild(t, parent, id) == Insert(t, parent, Len(t[parent].kids) + 1, id)

\* ref.insert_after(child): right after ref in ref's parent
InsertAfter(t, ref, id) ==
    Insert(t, t[ref].parent, IndexOf(t[t[ref].parent].kids, ref) + 1, id)

\* all nodes below a node, in document order
RECURSIVE Walk(_, _)
Walk(t, ids) ==
    IF ids = <<>> THEN <<>>
    ELSE <<Head(ids)>> \o Walk(t, t[Head(ids)].kids) \o Walk(t, Tail(ids))

Descendants(t, id) == Walk(t, t[id].kids)

\* under.find_all(name): the tags of that name below a node, in document order
FindAllTags(t, under, name) ==
    SelectSeq(Descendants(t, under), LAMBDA i : t[i].kind = "tag" /\ t[i].name = name)

\* under.find(name): the first such tag, 0 (None) when there is none
FindTag(t, under, name) ==
    LET found == FindAllTags(t, under, name)
    IN  IF found = <<>> THEN 0 ELSE Head(found)

\* under.find(name, attrs={a: v}): the first tag of that name whose attribute a is v
FindTagWith(t, under, name, a, v) ==
    LET found == SelectSeq(FindAllTags(t, under, name),
                           LAMBDA i : HasAttr(t[i], a) /\ t[i].attrs[a] = v)
    IN  IF found = <<>> THEN 0 ELSE Head(found)

(***************************************************************************)
(* RTL markup adjuster.                                                    *)
(***************************************************************************)
ensure_rtl_attributes_always_append(t) ==
    LET html_tag == FindTag(t, Root, "html")
        t1 == IF html_tag # 0
              THEN SetAttr(SetAttr(t, html_tag, "lang", <<"fa">>), html_tag, "dir", <<"rtl">>)
              ELSE t
        body_tag == FindTag(t1, Root, "body")
        classes == Get(t1[body_tag], "class", <<>>)
    IN  IF body_tag = 0 THEN t1
        ELSE SetAttr(SetAttr(t1, body_tag, "dir", <<"rtl">>), body_tag, "class",
                     Append(classes, "rtl-body"))

ensure_rtl_attributes(t) ==
    LET html_tag == FindTag(t, Root, "html")
        t1 == IF html_tag # 0
              THEN SetAttr(SetAttr(t, html_tag, "lang", <<"fa">>), html_tag, "dir", <<"rtl">>)
              ELSE t
        body_tag == FindTag(t1, Root, "body")
        t2 == SetAttr(t1, body_tag, "dir", <<"rtl">>)
        classes == Get(t2[body_tag], "class", <<>>)
    IN  IF body_tag = 0 THEN t1
        ELSE IF \A i \in 1..Len(classes) : classes[i] # "rtl-body"
             THEN SetAttr(t2, body_tag, "class", Append(classes, "rtl-body"))
             ELSE t2

ensure_rtl_stylesheet(t) ==
    LET head == FindTag(t, Root, "head")
        existing == FindTagWith(t, head, "link", "href", <<"css/rtl.css">>)
        new_link == Len(t) + 1
        t1 == NewNode(t, Tag("link", ("rel" :> <<"stylesheet">>) @@ ("href" :> <<"css/rtl.css">>)))
        style_link == FindTagWith(t, head, "link", "href", <<"css/style.css">>)
    IN  IF head = 0 THEN t
        ELSE IF existing # 0 THEN t
        ELSE IF style_link # 0 THEN InsertAfter(t1, style_link, new_link)
        ELSE AppendChild(t1, head, new_link)

ensure_rtl_script_no_detection(t) ==
    LET body == FindTag(t, Root, "body")
        main_script == FindTagWith(t, body, "script", "src", <<"js/main.js">>)
        rtl_tag == Len(t) + 1
        t1 == NewNode(t, Tag("script", "src" :> <<"js/rtl.js">>))
    IN  IF body = 0 THEN t
        ELSE IF main_script # 0 THEN InsertAfter(t1, main_script, rtl_tag)
        ELSE AppendChild(t1, body, rtl_tag)

ensure_rtl_script(t) ==
    LET body == FindTag(t, Root, "body")
        with_src == SelectSeq(FindAllTags(t, body, "script"), LAMBDA i : HasAttr(t[i], "src"))
        has_script == \E k \in 1..Len(with_src) : Get(t[with_src[k]], "src", <<>>) = <<"js/rtl.js">>
        main_script == FindTagWith(t, body, "script", "src", <<"js/main.js">>)
        rtl_tag == Len(t) + 1
        t1 == NewNode(t, Tag("script", "src" :> <<"js/rtl.js">>))
    IN  IF body = 0 THEN t
        ELSE IF has_script THEN t
        ELSE IF main_script # 0 THEN InsertAfter(t1, main_script, rtl_tag)
        ELSE AppendChild(t1, body, rtl_tag)

(***************************************************************************)
(* Extractor.  An entry is one translatable unit; node (a text unit) and   *)
(* element (an attribute unit) are references to nodes of the store.       *)
(***************************************************************************)
ATTRS_TO_TRANSLATE == <<"placeholder", "title", "alt", "aria-label", "value">>

EXCLUDED_TEXT_PARENTS == {"script", "style"}

TextEntry(t, node) ==
    LET s == split_text(t[node].str)
    IN  [type |-> "text", node |-> node, element |-> 0, attr |-> "",
         leading |-> s[1], content |-> s[2], trailing |-> s[3]]

AttrEntry(t, element, attr) ==
    LET s == split_text(t[element].attrs[attr])
    IN  [type |-> "attr", node |-> 0, element |-> element, attr |-> attr,
         leading |-> s[1], content |-> s[2], trailing |-> s[3]]

RECURSIVE TextEntries_any_parent(_, _)
TextEntries_any_parent(t, nodes) ==
    IF nodes = <<>> THEN <<>>
    ELSE LET node == Head(nodes)
             rest == TextEntries_any_parent(t, Tail(nodes))
         IN  IF t[node].kind \in {"comment", "doctype"} THEN rest
             ELSE IF TextEntry(t, node).content = <<>> THEN rest
             ELSE <<TextEntry(t, node)>> \o rest

\* the first loop of collect_entries, over soup.find_all(string=True)
RECURSIVE TextEntries(_, _)
TextEntries(t, nodes) ==
    IF nodes = <<>> THEN <<>>
    ELSE LET node == Head(nodes)
             rest == TextEntries(t, Tail(nodes))
         IN  IF t[node].kind \in {"comment", "doctype"} THEN rest
             ELSE IF t[node].parent # 0 /\ t[t[node].parent].name \in EXCLUDED_TEXT_PARENTS
                  THEN rest
             ELSE IF TextEntry(t, node).content = <<>> THEN rest
             ELSE <<TextEntry(t, node)>> \o rest

\* the inner loop of the second, over soup.find_all(attrs={attr: True})
RECURSIVE ElementEntries(_, _, _)
ElementEntries(t, elements, attr) ==
    IF elements = <<>> THEN <<>>
    ELSE LET element == Head(elements)
             value == t[element].attrs[attr]
             rest == ElementEntries(t, Tail(elements), attr)
         IN  IF value = <<>> \/ strip(value) = <<>> THEN rest
             ELSE IF AttrEntry(t, element, attr).content = <<>> THEN rest
             ELSE <<AttrEntry(t, element, attr)>> \o rest

RECURSIVE AttrEntries(_, _)
AttrEntries(t, attrs) ==
    IF attrs = <<>> THEN <<>>
    ELSE ElementEntries(t,
                        SelectSeq(Descendants(t, Root),
                                  LAMBDA i : t[i].kind = "tag" /\ HasAttr(t[i], Head(attrs))),
                        Head(attrs))
         \o AttrEntries(t, Tail(attrs))

collect_entries(t) ==
    TextEntries(t, SelectSeq(Descendants(t, Root), LAMBDA i : IsString(t[i])))
    \o AttrEntries(t, ATTRS_TO_TRANSLATE)

(***************************************************************************)
(* Reinjector.  The result is the store after the call and the exception   *)
(* the call raised ("" when it returned).                                  *)
(***************************************************************************)
\* node.replace_with(new_value): the node leaves the tree and a new
\* NavigableString takes its place in the parent's contents; a node that is
\* in no tree cannot be replaced
replace_with(t, node, new_value) ==
    IF t[node].parent = 0
    THEN [tree |-> t, raised |-> "ValueError"]
    ELSE LET parent == t[node].parent
             my_index == IndexOf(t[parent].kids, node)
             extracted == [t EXCEPT ![parent].kids = RemoveAt(@, my_index),
                                    ![node].parent = 0]
             fresh == Len(t) + 1
         IN  [tree |-> Insert(NewNode(extracted, NavigableString(new_value)),
                              parent, my_index, fresh),
              raised |-> ""]

apply_translation_append(t, entry, translated_text) ==
    LET new_value == entry.leading \o translated_text \o entry.trailing
    IN  IF entry.type = "text"
        THEN IF t[entry.node].parent = 0 THEN [tree |-> t, raised |-> "ValueError"]
             ELSE LET parent == t[entry.node].parent
                      extracted == [t EXCEPT ![parent].kids =
                                                 RemoveAt(@, IndexOf(@, entry.node)),
                                             ![entry.node].parent = 0]
                  IN  [tree |-> AppendChild(NewNode(extracted, NavigableString(new_value)),
                                            parent, Len(t) + 1),
                       raised |-> ""]
        ELSE [tree |-> SetAttr(t, entry.element, entry.attr, new_value), raised |-> ""]

apply_translation(t, entry, translated_text) ==
    LET new_value == entry.leading \o translated_text \o entry.trailing
    IN  IF entry.type = "text"
        THEN replace_with(t, entry.node, new_value)
        ELSE [tree |-> SetAttr(t, entry.element, entry.attr, new_value), raised |-> ""]

(***************************************************************************)
(* Translation client.  What the endpoint answers is the environment's     *)
(* choice: a transport failure, an HTTP error status, or a 2xx answer with *)
(* a body that is either no JSON at all or a JSON value.                   *)
(***************************************************************************)
MaxAttempts == 3

JNull == [t |-> "null", v |-> <<>>]

JNum == [t |-> "num", v |-> <<>>]

JStr(s) == [t |-> "str", v |-> s]

JArr(xs) == [t |-> "arr", v |-> xs]

JObj(keys) == [t |-> "obj", v |-> keys]

NotJson == [t |-> "notjson", v |-> <<>>]

NoMap == [c \in {} |-> <<>>]

NoError == [type |-> "", cause |-> ""]

NoResponse == [status |-> "none", body |-> JNull]

Count(f, c) == IF c \in DOMAIN f THEN f[c] ELSE 0

Returned(x) == [exc |-> "", val |-> x]

Raised(e) == [exc |-> e, val |-> JNull]

\* x[0] in Python
Index0(x) ==
    CASE x.t = "arr" -> IF x.v = <<>> THEN Raised("IndexError") ELSE Returned(x.v[1])
      [] x.t = "str" -> IF x.v = <<>> THEN Raised("IndexError")
                        ELSE Returned(JStr(<<x.v[1]>>))
      [] x.t = "obj" -> Raised("KeyError")
      [] OTHER -> Raised("TypeError")

\* iter(x) in Python: the items, as a sequence
Iterate(x) ==
    CASE x.t = "arr" -> Returned(x.v)
      [] x.t = "str" -> Returned([k \in 1..Len(x.v) |-> JStr(<<x.v[k]>>)])
      [] x.t = "obj" -> Returned(x.v)
      [] OTHER -> Raised("TypeError")

\* bool(x) in Python (JNum stands for a number other than 0)
Truthy(x) ==
    CASE x.t = "null" -> FALSE
      [] x.t = "num" -> TRUE
      [] OTHER -> x.v # <<>>

\* [segment[0] for segment in segments if segment[0]]
RECURSIVE FirstElements(_)
FirstElements(segments) ==
    IF segments = <<>> THEN Returned(<<>>)
    ELSE LET first == Index0(Head(segments))
             rest == FirstElements(Tail(segments))
         IN  IF first.exc # "" THEN Raised(first.exc)
             ELSE IF rest.exc # "" THEN Raised(rest.exc)
             ELSE IF Truthy(first.val) THEN Returned(<<first.val>> \o rest.val)
             ELSE rest

\* "".join(parts): every part must be a str
RECURSIVE Join(_)
Join(segs) ==
    IF segs = <<>> THEN Returned(<<>>)
    ELSE LET rest == Join(Tail(segs))
         IN  IF Head(segs).t # "str" \/ rest.exc # "" THEN Raised("TypeError")
             ELSE Returned(Head(segs).v \o rest.val)

\* lines 104-110: what one attempt makes of the endpoint's answer.  A body
\* that is no JSON raises requests' JSONDecodeError, a RequestException since
\* requests 2.27 and a plain ValueError before: json_error_caught says which
\* requests the run has.
Attempt(resp, json_error_caught) ==
    IF resp.status = "unreachable" THEN Raised("ConnectionError")
    ELSE IF resp.status = "error" THEN Raised("HTTPError")
    ELSE IF resp.body.t = "notjson"
         THEN Raised(IF json_error_caught THEN "JSONDecodeError" ELSE "ValueError")
    ELSE LET data0 == Index0(resp.body)
             segments == Iterate(data0.val)
             translated_segments == FirstElements(segments.val)
         IN  IF data0.exc # "" THEN Raised(data0.exc)
             ELSE IF segments.exc # "" THEN Raised(segments.exc)
             ELSE IF translated_segments.exc # "" THEN Raised(translated_segments.exc)
             ELSE Join(translated_segments.val)

\* except requests.RequestException
IsRequestException(exc) == exc \in {"ConnectionError", "HTTPError", "JSONDecodeError"}

translate_remote_first_error(att, last, resp, json_error_caught) ==
    LET out == Attempt(resp, json_error_caught)
        kept == IF last = "None" THEN out.exc ELSE last
    IN  IF out.exc = ""
        THEN [then |-> "return", value |-> out.val, attempt |-> 0, last_error |-> "None",
              error |-> NoError]
        ELSE IF ~IsRequestException(out.exc)
        THEN [then |-> "raise", value |-> <<>>, attempt |-> att, last_error |-> last,
              error |-> [type |-> out.exc, cause |-> ""]]
        ELSE IF att + 1 < MaxAttempts
        THEN [then |-> "retry", value |-> <<>>, attempt |-> att + 1, last_error |-> kept,
              error |-> NoError]
        ELSE [then |-> "raise", value |-> <<>>, attempt |-> att + 1, last_error |-> kept,
              error |-> [type |-> "RuntimeError", cause |-> kept]]

translate_remote_swallow(att, last, resp, json_error_caught) ==
    LET out == Attempt(resp, json_error_caught)
    IN  IF out.exc = ""
        THEN [then |-> "return", value |-> out.val, attempt |-> 0, last_error |-> "None",
              error |-> NoError]
        ELSE IF ~IsRequestException(out.exc)
        THEN [then |-> "raise", value |-> <<>>, attempt |-> att, last_error |-> last,
              error |-> [type |-> out.exc, cause |-> ""]]
        ELSE IF att + 1 < MaxAttempts
        THEN [then |-> "retry", value |-> <<>>, attempt |-> att + 1, last_error |-> out.exc,
              error |-> NoError]
        ELSE [then |-> "return", value |-> <<>>, attempt |-> 0, last_error |-> "None",
              error |-> NoError]

\* one pass of the loop of _translate_remote (lines 102-115) and, when it was the
\* last, the raise that follows the loop (line 116): att attempts have failed
\* before, the last of them with last
translate_remote(att, last, resp, json_error_caught) ==
    LET out == Attempt(resp, json_error_caught)
    IN  IF out.exc = ""
        THEN [then |-> "return", value |-> out.val, attempt |-> 0, last_error |-> "None",
              error |-> NoError]
        ELSE IF ~IsRequestException(out.exc)
        THEN [then |-> "raise", value |-> <<>>, attempt |-> att, last_error |-> last,
              error |-> [type |-> out.exc, cause |-> ""]]
        ELSE IF att + 1 < MaxAttempts
        THEN [then |-> "retry", value |-> <<>>, attempt |-> att + 1, last_error |-> out.exc,
              error |-> NoError]
        ELSE [then |-> "raise", value |-> <<>>, attempt |-> att + 1, last_error |-> out.exc,
              error |-> [type |-> "RuntimeError", cause |-> out.exc]]

CacheStoreNothing(c, txt, translation) == c

\* self.cache[text] = translated (line 86)
CacheStore(c, txt, translation) == (txt :> translation) @@ c

\* the keys of unique_strings, in the order the first loop of translate_texts
\* inserts them (lines 121-123)
RECURSIVE UniqueContents(_, _)
UniqueContents(es, seen) ==
    IF es = <<>> THEN seen
    ELSE UniqueContents(Tail(es),
                        IF \E j \in 1..Len(seen) : seen[j] = Head(es).content THEN seen
                        ELSE Append(seen, Head(es).content))

(***************************************************************************)
(* Input documents, as html.parser hands them over (line 194).  An item is *)
(* a small subtree: a sequence of nodes, each with the place of its parent *)
(* (r = 0: the container the item is put in, r = j: the item's j-th node). *)
(***************************************************************************)
MaxHeadItems == 2

MaxBodyItems == 2

MaxDocs == 2

Leaf(n) == << [r |-> 0, n |-> n] >>

Link(href) == Leaf(Tag("link", ("rel" :> <<"stylesheet">>) @@ ("href" :> <<href>>)))

Script(src) == Leaf(Tag("script", "src" :> <<src>>))

Within(name, attrs, item) ==
    << [r |-> 0, n |-> Tag(name, attrs)] >> \o [j \in 1..Len(item) |-> [item[j] EXCEPT !.r = @ + 1]]

RECURSIVE AddNodes(_, _, _, _)
AddNodes(t, container, base, item) ==
    IF item = <<>> THEN t
    ELSE AddNodes(AppendChild(NewNode(t, Head(item).n),
                              IF Head(item).r = 0 THEN container ELSE base + Head(item).r,
                              Len(t) + 1),
                  container, base, Tail(item))

RECURSIVE AddItems(_, _, _)
AddItems(t, container, items) ==
    IF items = <<>> THEN t
    ELSE AddItems(AddNodes(t, container, Len(t), Head(items)), container, Tail(items))

RECURSIVE SeqsUpTo(_, _)
SeqsUpTo(S, n) ==
    IF n = 0 THEN {<<>>}
    ELSE LET shorter == SeqsUpTo(S, n - 1)
         IN  shorter \cup {Append(q, x) : q \in {y \in shorter : Len(y) = n - 1}, x \in S}

\* a document: an optional <html> around an optional <head> and an optional
\* <body>; without a <body> the body's items lie where the body would
Document(wrap, head, body) ==
    LET t0 == <<Soup>>
        t1 == IF wrap THEN AddItems(t0, Root, <<Leaf(Tag("html", NoAttrs))>>) ELSE t0
        top == IF wrap THEN Len(t1) ELSE Root
        t2 == IF head.present
              THEN AddItems(AddItems(t1, top, <<Leaf(Tag("head", NoAttrs))>>),
                            Len(t1) + 1, head.items)
              ELSE t1
    IN  IF body.present
        THEN AddItems(AddItems(t2, top, <<Leaf(Tag("body", body.attrs))>>),
                      Len(t2) + 1, body.items)
        ELSE AddItems(t2, top, body.items)

Heads(items, n) ==
    {[present |-> FALSE, items |-> <<>>]}
    \cup {[present |-> TRUE, items |-> q] : q \in SeqsUpTo(items, n)}

Bodies(attrs, items, n) ==
    {[present |-> FALSE, attrs |-> NoAttrs, items |-> q] : q \in SeqsUpTo(items, n)}
    \cup {[present |-> TRUE, attrs |-> a, items |-> q] : a \in attrs, q \in SeqsUpTo(items, n)}

Documents(wraps, heads, bodies) ==
    {Document(w, h, b) : w \in wraps, h \in heads, b \in bodies}

(***************************************************************************)
(* State.                                                                  *)
(***************************************************************************)
VARIABLES
    text, parts,            \* split_text: its argument and its result
    pc,                     \* where the run is
    error,                  \* the exception that ended the run
    file, written,          \* main: the file being processed, the outputs written
    parsed, tree,           \* the document as parsed, and as mutated since
    round, once,            \* a repeated operation: its round, the document after round 1
    snap, entries, units,   \* the document as extracted, its entries, all contents so far
    unique_strings, translated, k, i,   \* translate_texts: the dict and its two loops
    attempt, last_error, cache,         \* the client
    json_is_request_exception,          \* the installed requests
    response, requests, remote_calls,   \* the endpoint: its last answer, what it was sent
    handled                 \* how the answers of unexpected shape were handled so far

splitVars == << text, parts >>

mainVars == << file, written >>

docVars == << parsed, tree >>

repeatVars == << round, once >>

extractVars == << snap, entries, units >>

loopVars == << unique_strings, translated, k, i >>

clientVars == << attempt, last_error, cache, json_is_request_exception >>

endpointVars == << response, requests, remote_calls, handled >>

vars == << splitVars, pc, error, mainVars, docVars, repeatVars, extractVars, loopVars,
           clientVars, endpointVars >>

\* the state in which nothing has happened yet
Fresh ==
    /\ parts = <<>>
    /\ error = NoError
    /\ file = 1 /\ written = <<>>
    /\ round = 1 /\ once = <<>>
    /\ snap = <<>> /\ entries = <<>> /\ units = <<>>
    /\ unique_strings = <<>> /\ translated = NoMap /\ k = 1 /\ i = 1
    /\ attempt = 0 /\ last_error = "None" /\ cache = NoMap
    /\ response = NoResponse /\ requests = NoMap /\ remote_calls = NoMap /\ handled = {}

(***************************************************************************)
(* The RTL adjuster's three operations, in main's order (lines 195-197).   *)
(***************************************************************************)
EnsureRtlAttributes ==
    /\ pc = "attributes"
    /\ tree' = ensure_rtl_attributes(tree)
    /\ pc' = "stylesheet"
    /\ UNCHANGED << splitVars, error, mainVars, parsed, repeatVars, extractVars, loopVars,
                    clientVars, endpointVars >>

EnsureRtlStylesheet ==
    /\ pc = "stylesheet"
    /\ tree' = ensure_rtl_stylesheet(tree)
    /\ pc' = "script"
    /\ UNCHANGED << splitVars, error, mainVars, parsed, repeatVars, extractVars, loopVars,
                    clientVars, endpointVars >>

EnsureRtlScript ==
    /\ pc = "script"
    /\ tree' = ensure_rtl_script(tree)
    /\ pc' = "adjusted"
    /\ UNCHANGED << splitVars, error, mainVars, parsed, repeatVars, extractVars, loopVars,
                    clientVars, endpointVars >>

(***************************************************************************)
(* main (lines 186-202), one document after the other.                     *)
(***************************************************************************)
\* line 194: the next file is read and parsed; what it holds is the input
LoadDocument(documents) ==
    /\ pc = "idle"
    /\ file <= MaxDocs
    /\ \E d \in documents : parsed' = d /\ tree' = d
    /\ pc' = "attributes"
    /\ UNCHANGED << splitVars, error, mainVars, repeatVars, extractVars, loopVars,
                    clientVars, endpointVars >>

\* the loop of line 193 has no file left
Finish ==
    /\ pc = "idle"
    /\ pc' = "done"
    /\ UNCHANGED << splitVars, error, mainVars, docVars, repeatVars, extractVars, loopVars,
                    clientVars, endpointVars >>

\* line 198, and the first loop of translate_texts (lines 120-123)
CollectEntries ==
    /\ pc = "adjusted"
    /\ entries' = collect_entries(tree)
    /\ snap' = tree
    /\ units' = units \o [j \in 1..Len(entries') |-> entries'[j].content]
    /\ unique_strings' = UniqueContents(entries', <<>>)
    /\ translated' = [c \in {unique_strings'[j] : j \in 1..Len(unique_strings')} |-> <<>>]
    /\ k' = 1
    /\ i' = 1
    /\ pc' = "translate_texts"
    /\ UNCHANGED << splitVars, error, mainVars, docVars, repeatVars, clientVars, endpointVars >>

\* translator.translate(text) on a cache hit (lines 83-84, 125)
TranslateCached ==
    /\ pc = "translate_texts"
    /\ k <= Len(unique_strings)
    /\ unique_strings[k] \in DOMAIN cache
    /\ translated' = [translated EXCEPT ![unique_strings[k]] = cache[unique_strings[k]]]
    /\ k' = k + 1
    /\ UNCHANGED << splitVars, pc, error, mainVars, docVars, repeatVars, extractVars,
                    unique_strings, i, clientVars, endpointVars >>

\* an answer has the shape the client expects: a list whose first entry is a list
\* of segments, each a list that starts with a string or null
WellFormed(body) ==
    /\ body.t = "arr" /\ body.v # <<>> /\ body.v[1].t = "arr"
    /\ \A j \in 1..Len(body.v[1].v) :
           LET seg == body.v[1].v[j]
           IN  seg.t = "arr" /\ seg.v # <<>> /\ seg.v[1].t \in {"str", "null"}

Malformed(resp) == resp.status = "ok" /\ ~WellFormed(resp.body)

\* translator.translate(text) on a cache miss: one HTTP request of
\* _translate_remote and what follows from its answer (lines 85-87, 102-116, 125)
Request(answers) ==
    /\ pc = "translate_texts"
    /\ k <= Len(unique_strings)
    /\ unique_strings[k] \notin DOMAIN cache
    /\ \E resp \in answers :
           LET txt == unique_strings[k]
               step == translate_remote(attempt, last_error, resp, json_is_request_exception)
           IN  /\ response' = resp
               /\ requests' = (txt :> Count(requests, txt) + 1) @@ requests
               /\ remote_calls' = IF attempt = 0
                                  THEN (txt :> Count(remote_calls, txt) + 1) @@ remote_calls
                                  ELSE remote_calls
               /\ handled' = IF Malformed(resp)
                             THEN handled \cup {CASE step.then = "return" -> "returned"
                                                  [] step.then = "retry" -> "retried"
                                                  [] step.error.type = "RuntimeError" -> "retried"
                                                  [] OTHER -> "fatal"}
                             ELSE handled
               /\ attempt' = step.attempt
               /\ last_error' = step.last_error
               /\ error' = step.error
               /\ IF step.then = "return"
                  THEN /\ cache' = CacheStore(cache, txt, step.value)
                       /\ translated' = [translated EXCEPT ![txt] = step.value]
                       /\ k' = k + 1
                       /\ pc' = pc
                  ELSE /\ UNCHANGED << cache, translated, k >>
                       /\ pc' = IF step.then = "raise" THEN "failed" ELSE pc
    /\ UNCHANGED << splitVars, mainVars, docVars, repeatVars, extractVars, unique_strings, i,
                    json_is_request_exception >>

\* one pass of the second loop of translate_texts (lines 126-127)
ApplyTranslation ==
    /\ pc = "translate_texts"
    /\ k > Len(unique_strings)
    /\ i <= Len(entries)
    /\ LET done == apply_translation(tree, entries[i], translated[entries[i].content])
       IN  /\ tree' = done.tree
           /\ IF done.raised = ""
              THEN i' = i + 1 /\ UNCHANGED << pc, error >>
              ELSE i' = i /\ pc' = "failed" /\ error' = [type |-> done.raised, cause |-> ""]
    /\ UNCHANGED << splitVars, mainVars, parsed, repeatVars, extractVars, unique_strings,
                    translated, k, clientVars, endpointVars >>

\* lines 200-202: the document is serialized and written
WriteOutput ==
    /\ pc = "translate_texts"
    /\ k > Len(unique_strings)
    /\ i > Len(entries)
    /\ written' = Append(written, [file |-> file, soup |-> tree, entries |-> Len(entries)])
    /\ file' = file + 1
    /\ pc' = "idle"
    /\ UNCHANGED << splitVars, error, docVars, repeatVars, extractVars, loopVars,
                    clientVars, endpointVars >>

(***************************************************************************)
(* split_text on every string up to MaxLen.                                *)
(***************************************************************************)
InitSplit ==
    /\ Fresh
    /\ text \in StringsUpTo(MaxLen)
    /\ pc = "split"
    /\ parsed = <<Soup>> /\ tree = <<Soup>>
    /\ json_is_request_exception = TRUE

SplitText ==
    /\ pc = "split"
    /\ parts' = split_text(text)
    /\ pc' = "split_done"
    /\ UNCHANGED << text, error, mainVars, docVars, repeatVars, extractVars, loopVars,
                    clientVars, endpointVars >>

NextSplit == SplitText

SpecSplit == InitSplit /\ [][NextSplit]_vars

(***************************************************************************)
(* The adjuster run again on a document it has adjusted.                   *)
(***************************************************************************)
Rounds == 2

RtlHeadItems == {Link("css/style.css"), Link("css/rtl.css"), Script("js/rtl.js")}

RtlBodyItems ==
    {Script("js/main.js"), Script("js/rtl.js"), Leaf(Tag("script", NoAttrs)),
     Within("div", NoAttrs, Script("js/main.js"))}

RtlBodyAttrs ==
    {NoAttrs, "class" :> <<"foo">>, "class" :> <<"rtl-body", "foo">>}

RtlDocuments ==
    Documents(BOOLEAN, Heads(RtlHeadItems, MaxHeadItems),
              Bodies(RtlBodyAttrs, RtlBodyItems, MaxBodyItems))

InitRtl ==
    /\ Fresh
    /\ text = <<>>
    /\ parsed \in RtlDocuments
    /\ tree = parsed
    /\ pc = "attributes"
    /\ json_is_request_exception = TRUE

RunAgain ==
    /\ pc = "adjusted"
    /\ round < Rounds
    /\ once' = IF round = 1 THEN tree ELSE once
    /\ round' = round + 1
    /\ pc' = "attributes"
    /\ UNCHANGED << splitVars, error, mainVars, docVars, extractVars, loopVars,
                    clientVars, endpointVars >>

NextRtl ==
    \/ EnsureRtlAttributes
    \/ EnsureRtlStylesheet
    \/ EnsureRtlScript
    \/ RunAgain

SpecRtl == InitRtl /\ [][NextRtl]_vars

(***************************************************************************)
(* Extraction and reinjection on their own: translate_texts with a stub    *)
(* translator that answers anything, then apply_translation once more on   *)
(* some unit.                                                              *)
(***************************************************************************)
TextItem(s) == Leaf(NavigableString(s))

ExtractItems ==
    {TextItem(<<" ", "a", " ">>), TextItem(<<" ">>),
     Within("p", "title" :> <<"a", " ">>, TextItem(<<"b">>)),
     Within("script", NoAttrs, TextItem(<<"a">>)),
     Within("style", NoAttrs, TextItem(<<"b">>)),
     Leaf(Comment(<<"a">>)), Leaf(Doctype(<<"a">>)),
     Leaf(Tag("input", ("value" :> <<>>) @@ ("placeholder" :> <<"\n", "b">>)))}

ExtractDocuments ==
    Documents({TRUE}, {[present |-> FALSE, items |-> <<>>]},
              Bodies({NoAttrs}, ExtractItems, MaxBodyItems))

StubTranslations == {<<"X">>, <<"Y", "Z">>}

InitReinject ==
    /\ Fresh
    /\ text = <<>>
    /\ parsed \in ExtractDocuments
    /\ tree = parsed
    /\ pc = "adjusted"
    /\ json_is_request_exception = TRUE

StubTranslate ==
    /\ pc = "translate_texts"
    /\ k <= Len(unique_strings)
    /\ \E T \in StubTranslations : translated' = [translated EXCEPT ![unique_strings[k]] = T]
    /\ k' = k + 1
    /\ UNCHANGED << splitVars, pc, error, mainVars, docVars, repeatVars, extractVars,
                    unique_strings, i, clientVars, endpointVars >>

ReinjectAgain ==
    /\ pc = "translate_texts"
    /\ k > Len(unique_strings)
    /\ i > Len(entries)
    /\ round = 1
    /\ \E j \in 1..Len(entries) :
           LET done == apply_translation(tree, entries[j], translated[entries[j].content])
           IN  /\ tree' = done.tree
               /\ error' = [type |-> done.raised, cause |-> ""]
               /\ pc' = IF done.raised = "" THEN "reinjected" ELSE "failed"
    /\ once' = tree
    /\ round' = 2
    /\ UNCHANGED << splitVars, mainVars, parsed, extractVars, loopVars, clientVars,
                    endpointVars >>

NextReinject ==
    \/ CollectEntries
    \/ StubTranslate
    \/ ApplyTranslation
    \/ ReinjectAgain

SpecReinject == InitReinject /\ [][NextReinject]_vars

(***************************************************************************)
(* Properties of extraction and reinjection.                               *)
(***************************************************************************)
\* C7: no text unit comes from a text node inside a script or style element, from
\* a comment or from a doctype, and no unit has an empty content.
ExtractionExcludesHiddenText ==
    \A j \in 1..Len(entries) :
        /\ entries[j].content # <<>>
        /\ entries[j].type = "text" =>
               /\ snap[entries[j].node].kind \notin {"comment", "doctype"}
               /\ snap[snap[entries[j].node].parent].name \notin {"script", "style"}

\* units were extracted from a document that also holds style text, a comment or
\* a doctype
ExtractedBesideHiddenText ==
    /\ entries # <<>>
    /\ \E n \in 1..Len(snap) :
           \/ snap[n].kind \in {"comment", "doctype"}
           \/ snap[n].kind = "text" /\ snap[snap[n].parent].name = "style"

\* where a unit was when it was extracted
PlaceOf(e) ==
    [parent |-> snap[e.node].parent, at |-> IndexOf(snap[snap[e.node].parent].kids, e.node)]

\* the unit's place holds exactly value
Holds(t, e, value) ==
    IF e.type = "text"
    THEN LET here == t[PlaceOf(e).parent].kids[PlaceOf(e).at]
         IN  t[here].kind = "text" /\ t[here].str = value /\ t[here].parent = PlaceOf(e).parent
    ELSE t[e.element].attrs[e.attr] = value

\* C5: a pass of the reinjection loop puts leading + T + trailing at the unit's
\* original place and changes nothing else of the document: the siblings keep
\* their order and count, every other node and attribute stays as it was.
ReinjectionInPlace ==
    [][(pc = "translate_texts" /\ i' = i + 1) =>
          LET e == entries[i]
              T == translated[e.content]
          IN  /\ Holds(tree', e, e.leading \o T \o e.trailing)
              /\ IF e.type = "text"
                 THEN LET p == PlaceOf(e).parent
                      IN  /\ Len(tree'[p].kids) = Len(snap[p].kids)
                          /\ \A m \in 1..Len(tree[p].kids) :
                                 m # PlaceOf(e).at => tree'[p].kids[m] = tree[p].kids[m]
                          /\ tree'[p] = [tree[p] EXCEPT !.kids = tree'[p].kids]
                          /\ \A n \in 1..Len(tree) : n \notin {p, e.node} => tree'[n] = tree[n]
                          /\ Len(tree') = Len(tree) + 1
                 ELSE /\ Len(tree') = Len(tree)
                      /\ \A n \in 1..Len(tree) :
                             IF n = e.element
                             THEN /\ DOMAIN tree'[n].attrs = DOMAIN tree[n].attrs
                                  /\ \A a \in DOMAIN tree[n].attrs \ {e.attr} :
                                         tree'[n].attrs[a] = tree[n].attrs[a]
                                  /\ tree'[n] = [tree[n] EXCEPT !.attrs = tree'[n].attrs]
                             ELSE tree'[n] = tree[n]]_vars

\* two text units of one parent, with whitespace around them, have been
\* reinjected, the second after the first
ReinjectedAfterEarlierUnit ==
    /\ pc = "translate_texts" /\ i = 3
    /\ entries[1].type = "text" /\ entries[2].type = "text"
    /\ entries[2].leading # <<>> /\ entries[2].trailing # <<>>
    /\ PlaceOf(entries[1]).parent = PlaceOf(entries[2]).parent
    /\ \A j \in 1..2 :
           Holds(tree, entries[j],
                 entries[j].leading \o translated[entries[j].content] \o entries[j].trailing)

\* C9 as stated: apply_translation called again on a unit, with the same
\* translation, returns and leaves the document as it was.
ReinjectingTwiceIsSafe ==
    round = 2 /\ snap # <<>> => error = NoError /\ tree = once

(***************************************************************************)
(* The whole run: up to MaxDocs documents through one client.              *)
(***************************************************************************)
Page(items) ==
    Document(TRUE, [present |-> TRUE, items |-> <<>>],
             [present |-> TRUE, attrs |-> NoAttrs, items |-> items])

\* <p title=" a"> a </p>b | a<script>b</script> | <input placeholder="b "><!--a-->
\* | a page with nothing to translate | <p>a</p><p> a</p>
MainDocuments ==
    {Page(<<Within("p", "title" :> <<" ", "a">>, TextItem(<<" ", "a", " ">>)), TextItem(<<"b">>)>>),
     Page(<<TextItem(<<"a">>), Within("script", NoAttrs, TextItem(<<"b">>))>>),
     Page(<<Leaf(Tag("input", "placeholder" :> <<"b", " ">>)), Leaf(Comment(<<"a">>))>>),
     Page(<<TextItem(<<" ">>)>>),
     Page(<<Within("p", NoAttrs, TextItem(<<"a">>)), Within("p", NoAttrs, TextItem(<<" ", "a">>))>>)}

Unreachable == [status |-> "unreachable", body |-> JNull]

HttpError == [status |-> "error", body |-> JNull]

Ok(body) == [status |-> "ok", body |-> body]

\* the body the endpoint sends for a translation in the given segments
Translation(segments) ==
    JArr(<<JArr([j \in 1..Len(segments) |-> JArr(<<segments[j]>>)])>>)

\* a transport failure, two translations, and a JSON object in place of the list
MainAnswers ==
    {Unreachable, Ok(Translation(<<JStr(<<"X">>)>>)), Ok(Translation(<<JStr(<<"Y">>)>>)),
     Ok(JObj(<<>>))}

Init ==
    /\ Fresh
    /\ text = <<>>
    /\ parsed = <<Soup>> /\ tree = <<Soup>>
    /\ pc = "idle"
    /\ json_is_request_exception = TRUE

Next ==
    \/ LoadDocument(MainDocuments)
    \/ EnsureRtlAttributes
    \/ EnsureRtlStylesheet
    \/ EnsureRtlScript
    \/ CollectEntries
    \/ TranslateCached
    \/ Request(MainAnswers)
    \/ ApplyTranslation
    \/ WriteOutput
    \/ Finish

Spec == Init /\ [][Next]_vars

(***************************************************************************)
(* The client against every kind of answer, on pages of one string each.   *)
(***************************************************************************)
ClientDocuments ==
    {Page(<<TextItem(<<"a">>)>>), Page(<<TextItem(<<" ", "b">>)>>)}

\* transport and HTTP failures; translations in one segment, in two, with a null
\* segment, with none; no JSON; JSON of other shapes: {}, null, [], [null], [[5]],
\* [[[]]], [[[5]]], ["ab"], [{"e": ...}]
Answers ==
    {Unreachable, HttpError,
     Ok(Translation(<<JStr(<<"X">>)>>)),
     Ok(Translation(<<JStr(<<"X">>), JStr(<<"Y">>)>>)),
     Ok(Translation(<<JStr(<<"Y">>), JNull>>)),
     Ok(Translation(<<>>)),
     Ok(NotJson),
     Ok(JObj(<<>>)), Ok(JNull), Ok(JArr(<<>>)), Ok(JArr(<<JNull>>)),
     Ok(JArr(<<JArr(<<JNum>>)>>)), Ok(Translation(<<JArr(<<>>)>>)), Ok(Translation(<<JNum>>)),
     Ok(JArr(<<JStr(<<"a", "b">>)>>)), Ok(JArr(<<JObj(<<JStr(<<"e">>)>>)>>))}

InitClient ==
    /\ Fresh
    /\ text = <<>>
    /\ parsed = <<Soup>> /\ tree = <<Soup>>
    /\ pc = "idle"
    /\ json_is_request_exception \in BOOLEAN

NextClient ==
    \/ LoadDocument(ClientDocuments)
    \/ EnsureRtlAttributes
    \/ EnsureRtlStylesheet
    \/ EnsureRtlScript
    \/ CollectEntries
    \/ TranslateCached
    \/ Request(Answers)
    \/ ApplyTranslation
    \/ WriteOutput
    \/ Finish

SpecClient == InitClient /\ [][NextClient]_vars

(***************************************************************************)
(* Properties of the run and of the client.                                *)
(***************************************************************************)
ContentsOf(us) == {us[j] : j \in 1..Len(us)}

RECURSIVE Total(_, _)
Total(f, S) ==
    IF S = {} THEN 0
    ELSE LET c == CHOOSE x \in S : TRUE IN f[c] + Total(f, S \ {c})

\* C1, amended: every distinct content is handed to _translate_remote once, which
\* sends it in one to three HTTP requests; once a document is written every content
\* extracted so far has had its one remote call; the cache never changes an entry;
\* and every unit of a written document holds the cached translation of its content.
OneRemoteCallPerContent ==
    /\ [](\A c \in DOMAIN remote_calls : remote_calls[c] = 1 /\ requests[c] \in 1..3)
    /\ [](pc \in {"idle", "done"} =>
              /\ DOMAIN remote_calls = ContentsOf(units)
              /\ DOMAIN cache = ContentsOf(units))
    /\ [][\A c \in DOMAIN cache : c \in DOMAIN cache' /\ cache'[c] = cache[c]]_vars
    /\ [][written' # written =>
              \A j \in 1..Len(entries) :
                  Holds(tree, entries[j],
                        entries[j].leading \o cache[entries[j].content] \o entries[j].trailing)]_vars

\* C1 as stated: a finished run has sent exactly K HTTP requests, K the number of
\* distinct contents among its units.
ExactlyOneRequestPerContent ==
    pc = "done" => Total(requests, DOMAIN requests) = Cardinality(ContentsOf(units))

\* a finished run over two documents with more units than contents and a retry
SharedClientRunFinished ==
    /\ pc = "done" /\ Len(written) = 2
    /\ Cardinality(ContentsOf(units)) = 2
    /\ Len(units) > 2
    /\ \E c \in DOMAIN requests : requests[c] = 2

\* the translation a well-formed answer carries
RECURSIVE Concatenated(_)
Concatenated(segments) ==
    IF segments = <<>> THEN <<>>
    ELSE (IF Head(segments).v[1].t = "str" THEN Head(segments).v[1].v ELSE <<>>)
         \o Concatenated(Tail(segments))

CauseOf(resp) ==
    CASE resp.status = "unreachable" -> "ConnectionError"
      [] resp.status = "error" -> "HTTPError"
      [] resp.status = "ok" /\ resp.body.t = "notjson" -> "JSONDecodeError"
      [] OTHER -> ""

\* C2: no content is requested more than three times or again after a success; a
\* good answer ends the call with its translation; a transport or HTTP failure
\* before the third attempt is retried; the terminal error comes with the third
\* failed attempt only and carries that attempt's cause.
AtMostThreeAttempts ==
    /\ [](\A c \in DOMAIN requests : requests[c] <= 3)
    /\ [](error.type = "RuntimeError" => pc = "failed")
    /\ [][requests' # requests =>
              LET c == unique_strings[k]
                  sent == Count(requests', c)
              IN  /\ c \notin DOMAIN cache
                  /\ sent = Count(requests, c) + 1
                  /\ (response'.status = "ok" /\ WellFormed(response'.body)) =>
                         /\ c \in DOMAIN cache'
                         /\ cache'[c] = Concatenated(response'.body.v[1].v)
                         /\ pc' = pc /\ k' = k + 1 /\ error' = NoError
                  /\ (response'.status # "ok" /\ sent < 3) =>
                         pc' = pc /\ k' = k /\ error' = NoError /\ c \notin DOMAIN cache'
                  /\ (response'.status # "ok" /\ sent = 3) => error'.type = "RuntimeError"
                  /\ error'.type = "RuntimeError" =>
                         /\ sent = 3
                         /\ CauseOf(response') # ""
                         /\ error'.cause = CauseOf(response')]_vars

\* the run failed on the third attempt, an HTTP error after a transport failure
ThirdAttemptFailed ==
    /\ pc = "failed"
    /\ error = [type |-> "RuntimeError", cause |-> "HTTPError"]
    /\ \E c \in DOMAIN requests : requests[c] = 3 /\ c \notin DOMAIN cache
    /\ Len(written) = 1

\* C3: a document is written only when each of its units holds its translation,
\* and it is the document as it then is; a third failed attempt, like any other
\* error, fails the run and writes nothing; a failed run has no output for the
\* document it failed on.
NoPartialOutput ==
    /\ [][written' # written =>
              /\ k > Len(unique_strings) /\ i > Len(entries)
              /\ \A j \in 1..Len(entries) :
                     /\ translated[entries[j].content] = cache[entries[j].content]
                     /\ Holds(tree, entries[j],
                              entries[j].leading \o translated[entries[j].content]
                                  \o entries[j].trailing)
              /\ Len(written') = Len(written) + 1
              /\ written'[Len(written')].file = file
              /\ written'[Len(written')].soup = tree]_vars
    /\ [][(requests' # requests /\ response'.status # "ok"
               /\ Count(requests', unique_strings[k]) = 3) =>
              pc' = "failed" /\ error'.type # ""]_vars
    /\ [][error' # NoError => pc' = "failed" /\ written' = written]_vars
    /\ [](pc = "failed" => \A j \in 1..Len(written) : written[j].file # file)

\* the second document's second content failed three times: one output, not two
RunFailedOnSecondDocument ==
    /\ pc = "failed" /\ error.type = "RuntimeError"
    /\ file = 2 /\ Len(written) = 1
    /\ k = 2 /\ Len(unique_strings) = 2
    /\ unique_strings[1] \in DOMAIN cache

\* C8 as stated: answers of unexpected shape are all handled one way, as failed
\* attempts or as fatal errors, and none yields a translation.
MalformedHandledOneWay ==
    Cardinality(handled) <= 1 /\ "returned" \notin handled

(***************************************************************************)
(* Properties of the RTL adjuster.                                         *)
(***************************************************************************)
RECURSIVE IsBelow(_, _, _)
IsBelow(t, n, top) ==
    /\ t[n].parent # 0
    /\ \/ t[n].parent = top
       \/ IsBelow(t, t[n].parent, top)

TagsBelow(t, top, name, a, v) ==
    {n \in 1..Len(t) : /\ t[n].kind = "tag" /\ t[n].name = name
                       /\ a \in DOMAIN t[n].attrs /\ t[n].attrs[a] = <<v>>
                       /\ IsBelow(t, n, top)}

Max(a, b) == IF a >= b THEN a ELSE b

ClassesOf(t, n) == IF "class" \in DOMAIN t[n].attrs THEN t[n].attrs["class"] ELSE <<>>

\* C6: adjusting an adjusted document changes nothing, and an adjusted document
\* has the rtl.css link, the rtl.js script and the rtl-body class once each unless
\* the parsed document already had more, with the body's own classes first and in
\* their order.
RtlAdjustmentIdempotent ==
    pc = "adjusted" =>
        LET html == FindTag(parsed, Root, "html")
            head == FindTag(parsed, Root, "head")
            body == FindTag(parsed, Root, "body")
            was == ClassesOf(parsed, body)
        IN  /\ round >= 2 => tree = once
            /\ html # 0 => tree[html].attrs["lang"] = <<"fa">> /\ tree[html].attrs["dir"] = <<"rtl">>
            /\ head # 0 =>
                   Cardinality(TagsBelow(tree, head, "link", "href", "css/rtl.css"))
                       = Max(1, Cardinality(TagsBelow(parsed, head, "link", "href", "css/rtl.css")))
            /\ body # 0 =>
                   /\ Cardinality(TagsBelow(tree, body, "script", "src", "js/rtl.js"))
                          = Max(1, Cardinality(TagsBelow(parsed, body, "script", "src", "js/rtl.js")))
                   /\ tree[body].attrs["dir"] = <<"rtl">>
                   /\ ClassesOf(tree, body) =
                          IF \E j \in 1..Len(was) : was[j] = "rtl-body" THEN was
                          ELSE was \o <<"rtl-body">>

\* a document with <body class="foo"> and neither asset, adjusted twice
RtlAdjustedTwice ==
    /\ pc = "adjusted" /\ round = 2
    /\ Len(tree) = Len(parsed) + 2
    /\ \E n \in 1..Len(parsed) :
           /\ parsed[n].name = "body"
           /\ ClassesOf(parsed, n) = <<"foo">>
           /\ ClassesOf(tree, n) = <<"foo", "rtl-body">>

\* what a step of ensure_rtl_script did when it inserted the tag: one new node, a
\* <script src="js/rtl.js">, right after the body's first js/main.js script or
\* else last in the body, every other node as it was
RtlScriptInserted(body) ==
    LET new == Len(tree) + 1
        mains == TagsBelow(tree, body, "script", "src", "js/main.js")
        place == IF mains = {} THEN [parent |-> body, at |-> Len(tree[body].kids) + 1]
                 ELSE LET first == CHOOSE m \in mains :
                                       \A o \in mains :
                                           \E j1, j2 \in 1..Len(Descendants(tree, body)) :
                                               /\ Descendants(tree, body)[j1] = m
                                               /\ Descendants(tree, body)[j2] = o
                                               /\ j1 <= j2
                      IN  [parent |-> tree[first].parent,
                           at |-> IndexOf(tree[tree[first].parent].kids, first) + 1]
    IN  /\ Len(tree') = new
        /\ tree'[new] = [Tag("script", "src" :> <<"js/rtl.js">>) EXCEPT !.parent = place.parent]
        /\ tree'[place.parent].kids = InsertInto(tree[place.parent].kids, place.at, new)
        /\ \A n \in 1..Len(tree) :
               IF n = place.parent THEN tree'[n] = [tree[n] EXCEPT !.kids = tree'[n].kids]
               ELSE tree'[n] = tree[n]

\* C10, amended: ensure_rtl_script does nothing when the document has no body or
\* the body holds a script tag whose src is js/rtl.js; otherwise it inserts one.
RtlScriptDetectedInBody ==
    [][(pc = "script" /\ pc' = "adjusted") =>
          LET body == FindTag(tree, Root, "body")
          IN  IF body = 0 \/ TagsBelow(tree, body, "script", "src", "js/rtl.js") # {}
              THEN tree' = tree
              ELSE RtlScriptInserted(body)]_vars

\* C10 as stated: any script tag of the document with src js/rtl.js, wherever it
\* is, makes ensure_rtl_script do nothing.
RtlScriptDetectedAnywhere ==
    [][(pc = "script" /\ pc' = "adjusted") =>
          LET body == FindTag(tree, Root, "body")
          IN  IF TagsBelow(tree, Root, "script", "src", "js/rtl.js") # {}
              THEN tree' = tree
              ELSE body # 0 => RtlScriptInserted(body)]_vars

\* the tag went in right after a js/main.js script that is not the body's last child
RtlScriptAfterMain ==
    /\ pc = "adjusted" /\ round = 1
    /\ \E n \in 1..Len(tree) :
           /\ n > Len(parsed)
           /\ tree[n].name = "script"
           /\ LET sibs == tree[tree[n].parent].kids
                  at == IndexOf(sibs, n)
              IN  /\ 1 < at /\ at < Len(sibs)
                  /\ tree[sibs[at - 1]].attrs = ("src" :> <<"js/main.js">>)

(***************************************************************************)
(* Properties of split_text.                                               *)
(***************************************************************************)
AllSpace(s) == \A j \in 1..Len(s) : s[j] \in {" ", "\n"}

\* C4 as stated: the three parts concatenate to the input, and the core is empty
\* exactly when the stripped input is empty.
SplitConcatenatesForAll ==
    pc = "split_done" =>
        /\ parts[1] \o parts[2] \o parts[3] = text
        /\ (parts[2] = <<>>) <=> (strip(text) = <<>>)

\* C4, amended: a string that is not all whitespace splits into whitespace, a core
\* that neither starts nor ends with whitespace, and whitespace, which concatenate
\* to the string; a string that is all whitespace gives three empty parts.
SplitConcatenatesUnlessBlank ==
    pc = "split_done" =>
        IF AllSpace(text)
        THEN parts = << <<>>, <<>>, <<>> >>
        ELSE /\ parts[1] \o parts[2] \o parts[3] = text
             /\ AllSpace(parts[1]) /\ AllSpace(parts[3])
             /\ parts[2] # <<>>
             /\ ~AllSpace(<<parts[2][1]>>) /\ ~AllSpace(<<parts[2][Len(parts[2])]>>)

\* a string with whitespace on both sides has been split
SplitWithBothMargins ==
    /\ pc = "split_done"
    /\ text = <<" ", "a", "\n">>
    /\ parts = << <<" ">>, <<"a">>, <<"\n">> >>

=============================================================================
